---- MODULE Spec2Model ----
(***************************************************************************)
(* Escrow transaction system of the channel marketplace                    *)
(* (src/src/services/escrow_system.py, class EscrowTransactionSystem).     *)
(*                                                                         *)
(* Every call of a method opens its own sqlite3 connection (get_db) and    *)
(* runs a few SQL statements on it.  Calls made from different threads or  *)
(* processes interleave statement by statement.  The database is modelled  *)
(* with SQLite's locking: a SELECT outside a transaction reads the         *)
(* committed state; the first UPDATE/INSERT of a connection opens a        *)
(* transaction (Python's implicit BEGIN) and takes the single write lock;  *)
(* statements of that connection then read and write its own working copy  *)
(* `pending`; commit() publishes the working copy and frees the lock; a    *)
(* connection that is closed or dropped without commit rolls back.  A      *)
(* statement that needs the write lock while another connection holds it   *)
(* waits (Spec); in FaultSpec the wait may also end in sqlite3's           *)
(* "database is locked" error, and a statement may fail with an I/O error. *)
(* ListingSpec has two buyers open escrows for the one listing; LiveSpec   *)
(* is Spec with the fairness of a system that keeps running.               *)
(*                                                                         *)
(* The deposit monitors (src/src/core/monitor.py, WorkingTONMonitor, and   *)
(* src/src/core/production_monitor.py, ProductionTONMonitor) poll the      *)
(* indexer for the transactions of the deposit wallet, store them, credit  *)
(* the sender's balance and save a checkpoint (MonSpec, ProdSpec).  The    *)
(* indexer may answer with any of the wallet's transactions in any order;  *)
(* a monitor may be stopped and started again at any point.  MonFaultSpec  *)
(* adds the statements of the poller that may raise and the requests that  *)
(* fail, ProdFaultSpec the failing requests of the production monitor, its *)
(* retries, its circuit breaker and a failing INSERT.  BookSpec is the     *)
(* address book: wallet accounts registered and looked up under any of     *)
(* their textual forms.                                                    *)
(***************************************************************************)
EXTENDS Integers, FiniteSets, Sequences, TLC

\* ----------------------------------------------------------------- bounds
MaxProcs == 2            \* connections (calls) that may be in flight at once
MaxTime == 73            \* the last instant of the clock (hours)
MaxCount == 3            \* the history counters saturate here

\* ------------------------------------------------------- program constants
escrow_timeout_hours == 72

\* ------------------------------------------------------------- input sets
Procs == 1..MaxProcs
TxIds == {"t1", "t2"}                  \* ids uuid4 may produce
UnknownTx == "t-unknown"               \* an id no escrow ever has
TxArgs == TxIds \cup {UnknownTx}
Listings == {"l1"}
UnknownListing == "l-unknown"
ListingArgs == Listings \cup {UnknownListing}
UserIds == {"u1", "u2", "u3"}
ListingSeller == "u1"                  \* seller_id of listing l1
CreateBuyers == {"u1", "u2"}           \* buyer_id values tried by create
Roles == {"buyer", "seller", "admin"}  \* "admin": any other string
Hashes == {"0xabc", "0xdef"}
ListingPrice == "10.0"
\* the instants the clock visits: the start, one window later, the end
Instants == {t \in 0..MaxTime : t = 0 \/ t = escrow_timeout_hours \/ t = MaxTime}

NoRow == [status |-> "absent"]
NULL == "NULL"

VARIABLES
    committed,   \* the database as every connection sees it
    pending,     \* the working copy of the connection holding the write lock
    lock,        \* the write lock: Free, Held(p), or Orphan (a dropped connection)
    now,         \* wall clock, in hours
    pc,          \* per connection: the statement its call is at
    call,        \* per connection: the method called and its arguments
    ret,         \* what the last step returned to its caller ("none": nothing)
    confirmers,  \* history: ids whose confirm_ownership_transfer committed
    xferCount,   \* history: calls that passed the checks of lines 137-147
    releases,    \* history: commits that carried status = 'completed'
    uuids        \* the ids uuid4 produces in this run

escrowVars ==
    <<committed, pending, lock, now, pc, call, ret, confirmers, xferCount, releases, uuids>>

\* The deposit monitors (src/src/core/monitor.py, class WorkingTONMonitor, and
\* src/src/core/production_monitor.py, class ProductionTONMonitor) work on
\* another database; the escrow system never touches it.
VARIABLES
    mdb,         \* the monitor's database: users, transactions, user_balances,
                 \* system_status.last_logical_time
    poller,      \* WorkingTONMonitor.monitoring_loop: its locals and position
    prod,        \* ProductionTONMonitor: its fields and position
    hist         \* history: what the indexer delivered, what was credited

monitorVars == <<mdb, poller, prod, hist>>

vars == <<escrowVars, monitorVars>>

\* ------------------------------------------------------------ the database
\* A row of escrow_transactions (ESCROW_SCHEMA); the timestamp columns other
\* than timeout_at carry no decision and are left out.
\* line 68: f"ESCROW_{transaction_id[:8]}_{md5(buyer_id)[:8]}"
EscrowAddress(tx, buyer) == <<"ESCROW", tx, buyer>>

NewEscrow(tx, listing, buyer, seller, amount, deadline) ==
    [status |-> "pending_payment", listing_id |-> listing, buyer_id |-> buyer,
     seller_id |-> seller, amount |-> amount, payment_hash |-> NULL,
     buyer_confirmed |-> FALSE, seller_confirmed |-> FALSE,
     escrow_address |-> EscrowAddress(tx, buyer), timeout_at |-> deadline]

\* SELECT * FROM escrow_transactions WHERE transaction_id = ?  (NoRow: no row)
SelectEscrow(db, tx) == IF tx \in TxIds THEN db.escrows[tx] ELSE NoRow

\* SELECT * FROM channel_listings WHERE listing_id = ? AND status = 'active'
SelectActiveListing(db, listing) ==
    IF listing \in Listings /\ db.listings[listing].status = "active"
    THEN db.listings[listing] ELSE NoRow

WithEscrow(db, tx, row) == [db EXCEPT !.escrows[tx] = row]

InitDb ==
    [escrows |-> [t \in TxIds |-> NoRow],
     listings |-> [l \in Listings |->
                     [status |-> "active", seller_id |-> ListingSeller,
                      price |-> ListingPrice]]]

NoCall == [op |-> "-", tx |-> "-", listing |-> "-", who |-> "-", role |-> "-",
           hash |-> "-", at |-> 0, rel |-> "-"]

Free == [state |-> "free", by |-> 0]
Held(p) == [state |-> "held", by |-> p]
Orphan == [state |-> "orphan", by |-> 0]

\* ======================================================== deposit monitors
\* ----------------------------------------------------------------- bounds
MaxBatch == 2            \* transactions in one answer of the indexer

\* ------------------------------------------------------- program constants
max_consecutive_errors == 5
max_retries == 3                 \* config.ton.max_retries (TON_MAX_RETRIES)
breaker_failures == 3            \* failures that open the circuit breaker
breaker_reset_seconds == 30      \* an open breaker is tried again after these
WEBSITE_WALLET == "UQDrY5iulWs_MyWTP9JSGedWBzlbeRmhCBoqsSaNiSLOs315"
actual_deposit_address == "EQDrY5iulWs_MyWTP9JSGedWBzlbeRmhCBoqsSaNiSLOsyC8"

\* ------------------------------------------------------------- input sets
\* An address string is an account (workchain and 32 bytes) written in one
\* of its textual forms: raw "wc:hex", or base64 of tag, workchain, account
\* and CRC: bounceable (EQ) or non-bounceable (UQ), in the standard or the
\* URL-safe alphabet, and a testnet form (kQ).  acct1 is a wallet account
\* that registers through create_user_with_wallet; acct9 never registers.
\* A string is modelled by what it spells: the form, the workchain number as
\* written (the decimal number of the raw form, the unsigned byte of the
\* base64 forms), the account and whether the two CRC bytes are the right
\* ones.
Accounts == {"acct1"}
MainnetForms == {"EQ_std", "EQ_url", "UQ_std", "UQ_url"}
Forms == {"raw", "kQ_url"} \cup MainnetForms
AllForms == Forms \cup {"kQ_std", "0Q_std", "0Q_url"}
Enc(wc, a, f) == [wc |-> wc, acct |-> a, form |-> f, crc_ok |-> TRUE]
Addr(a, f) == Enc(0, a, f)                  \* an address of the basechain
NoAddr == Addr("", "")                      \* the empty string
\* strings that are no address: a word, and 36 bytes in base64 whose last
\* two are not the CRC of the others
Garbage == Addr("", "garbage")
BadCrc(a) == [Addr(a, "EQ_url") EXCEPT !.crc_ok = FALSE]
Malformed == {Garbage} \cup {BadCrc(a) : a \in Accounts}
Addresses == {Addr(a, f) : a \in Accounts, f \in Forms}
\* every valid encoding of the accounts, on the basechain (workchain 0) and
\* on the masterchain (workchain -1, byte 255)
Encodings ==
    {Enc(wc, a, "raw") : wc \in {0, -1}, a \in Accounts}
        \cup {Enc(b, a, f) : b \in {0, 255}, a \in Accounts, f \in AllForms \ {"raw"}}

\* The transactions of the deposit wallet the indexer knows: hash, logical
\* time, whether there is an in_msg, in_msg.source, in_msg.value (in TON).
\* h4 has an empty sender, h5 carries no value and h6 has no inbound message.
ChainTxs ==
    [h1 |-> [lt |-> 1, in_msg |-> TRUE, source |-> Addr("acct1", "EQ_url"), value |-> 2],
     h2 |-> [lt |-> 2, in_msg |-> TRUE, source |-> Addr("acct1", "raw"), value |-> 3],
     h3 |-> [lt |-> 3, in_msg |-> TRUE, source |-> Addr("acct9", "EQ_url"), value |-> 1],
     h4 |-> [lt |-> 4, in_msg |-> TRUE, source |-> NoAddr, value |-> 1],
     h5 |-> [lt |-> 5, in_msg |-> TRUE, source |-> Addr("acct1", "EQ_url"), value |-> 0],
     h6 |-> [lt |-> 6, in_msg |-> FALSE, source |-> NoAddr, value |-> 0]]
TxHashes == DOMAIN ChainTxs

\* ids AUTOINCREMENT hands out: an account can be registered once under a
\* mainnet form and once under each other string
MonUserIds ==
    1..(Cardinality(Addresses \cup Malformed)
            - Cardinality(Accounts) * (Cardinality(MainnetForms) - 1))
\* telegram_id arguments of create_user_with_wallet: None or "tg1"
NoTg == <<>>
TgArgs == {NoTg, <<"tg1">>}

\* what getTransactions may answer: any transactions of the wallet, in any
\* order, a transaction possibly more than once
RECURSIVE SeqsUpTo(_)
SeqsUpTo(n) ==
    IF n = 0 THEN {<<>>}
    ELSE LET shorter == SeqsUpTo(n - 1) IN
         shorter \cup {Append(b, h) : b \in {c \in shorter : Len(c) = n - 1},
                                      h \in TxHashes}
Batches == SeqsUpTo(MaxBatch)

\* None, NULL and 0 all read as "no logical time yet" (lines 784, 802, 825,
\* 907 test truthiness only), and a NULL user_id is no user: both are 0 here.
NoLt == 0
NoUser == 0
NoUserRow == [telegram_id |-> NoTg, main |-> NoAddr, variants |-> {}]
NoTx == [user_id |-> NoUser, amount |-> 0, logical_time |-> 0, to_address |-> "-"]
NoBalance == [current_balance |-> -1, deposit_count |-> -1]

\* init_database (lines 45-150): empty tables, system_status row 1 with
\* last_logical_time DEFAULT 0
InitMdb ==
    [users |-> [u \in MonUserIds |-> NoUserRow],
     txs |-> [h \in TxHashes |-> NoTx],
     balances |-> [u \in MonUserIds |-> NoBalance],
     last_logical_time |-> 0]

PollerStopped == [pc |-> "stopped", last_lt |-> NoLt, batch |-> <<>>, i |-> 0,
                  consecutive_errors |-> 0]
\* left: the transactions of the fetched list the for loop has yet to reach
\* attempt: the HTTP attempts the running _fetch_transactions has made
BreakerClosed == [failures |-> 0, is_open |-> FALSE]
ProdStopped == [pc |-> "stopped", last_logical_time |-> 0,
                processed_transactions |-> {}, left |-> 0,
                tx |-> "-", user_id |-> NoUser,
                error_count |-> 0, circuit_breaker |-> BreakerClosed, attempt |-> 0]
NoHistory ==
    [delivered |-> {},                         \* hashes delivered to the poller
     credits |-> [h \in TxHashes |-> 0],       \* times a hash was credited
     start_lt |-> NoLt,                        \* last_lt when the cycle began
     passed |-> <<>>,                          \* hashes processed this cycle
     failed |-> 0]                             \* failed cycles since the last good one

MonitorInit ==
    /\ mdb = InitMdb
    /\ poller = PollerStopped
    /\ prod = ProdStopped
    /\ hist = NoHistory

Min(a, b) == IF a < b THEN a ELSE b
Bump(n) == Min(n + 1, MaxCount)

EscrowInit ==
    /\ committed = InitDb
    /\ pending = InitDb
    /\ lock = Free
    /\ now = 0
    /\ pc = [p \in Procs |-> "idle"]
    /\ call = [p \in Procs |-> NoCall]
    /\ ret = "none"
    /\ confirmers = [t \in TxIds |-> {}]
    /\ xferCount = [t \in TxIds |-> 0]
    /\ releases = [t \in TxIds |-> 0]
    /\ MonitorInit

\* one escrow is created in the run
Init == EscrowInit /\ uuids = {"t1"}

\* A call is served by the lowest-numbered free connection slot.
CanStart(p) == pc[p] = "idle" /\ \A q \in Procs : q < p => pc[q] # "idle"

\* the call goes on to its next statement
Goto(p, next, c) ==
    /\ pc' = [pc EXCEPT ![p] = next]
    /\ call' = [call EXCEPT ![p] = c]
    /\ ret' = "none"

\* return: the call is over, the connection object goes out of scope
Return(p, result) ==
    /\ pc' = [pc EXCEPT ![p] = "idle"]
    /\ call' = [call EXCEPT ![p] = NoCall]
    /\ ret' = result

\* ------------------------------------------------ create_escrow_transaction
UnusedTxIds == {t \in uuids : committed.escrows[t] = NoRow /\ pending.escrows[t] = NoRow}
CreatesInFlight == {q \in Procs : call[q].op = "create"}

\* lines 52-64: read the listing (outside any transaction), reject a missing
\* or inactive one and the seller buying from himself; lines 67-82 then
\* evaluate the INSERT's values, the deadline among them.
CreateSelect(p, listing_id, buyer_id) ==
    /\ CanStart(p)
    /\ LET listing == SelectActiveListing(committed, listing_id) IN
       IF listing = NoRow
       THEN Return(p, "Listing not found or inactive")
       ELSE IF listing.seller_id = buyer_id
       THEN Return(p, "Cannot buy your own channel")
       ELSE /\ Cardinality(UnusedTxIds) > Cardinality(CreatesInFlight)
            /\ Goto(p, "create_insert",
                    [NoCall EXCEPT !.op = "create", !.listing = listing_id,
                                   !.who = buyer_id, !.at = now])
    /\ UNCHANGED <<committed, pending, lock, now, confirmers, xferCount, releases, uuids, monitorVars>>

CreateTimeout_NoWindow(at) == at
CreateTimeout(at) == at + escrow_timeout_hours

\* lines 67-82: uuid4 gives an id no row has; the INSERT opens the transaction.
\* The listing row read at line 56 supplies seller_id and price.
CreateInsert(p) ==
    /\ pc[p] = "create_insert"
    /\ lock = Free
    /\ \E tx \in UnusedTxIds :
          LET listing == committed.listings[call[p].listing] IN
          /\ pending' = WithEscrow(committed, tx,
                           NewEscrow(tx, call[p].listing, call[p].who, listing.seller_id,
                                     listing.price, CreateTimeout(call[p].at)))
          /\ Goto(p, "create_commit", [call[p] EXCEPT !.tx = tx])
    /\ lock' = Held(p)
    /\ UNCHANGED <<committed, now, confirmers, xferCount, releases, uuids, monitorVars>>

\* lines 84-93
CreateCommit(p) ==
    /\ pc[p] = "create_commit"
    /\ committed' = pending
    /\ lock' = Free
    /\ Return(p, "created")
    /\ UNCHANGED <<pending, now, confirmers, xferCount, releases, uuids, monitorVars>>

\* ------------------------------------------------- confirm_payment_received
PayMatches_AnyStatus(row) == row # NoRow

\* WHERE transaction_id = ? AND status = 'pending_payment'
PayMatches(row) == row # NoRow /\ row.status = "pending_payment"

PaySet_NoHash(row, hash) == [row EXCEPT !.status = "payment_confirmed"]

\* SET status = 'payment_confirmed', payment_hash = ?
PaySet(row, hash) == [row EXCEPT !.status = "payment_confirmed", !.payment_hash = hash]

\* lines 103-114: the UPDATE opens the transaction; with rowcount 0 the method
\* returns without commit or close, and the dropped connection keeps the write
\* lock until the interpreter frees it.
PayUpdate(p, tx, hash) ==
    /\ CanStart(p)
    /\ lock = Free
    /\ LET row == SelectEscrow(committed, tx) IN
       IF PayMatches(row)
       THEN /\ pending' = WithEscrow(committed, tx, PaySet(row, hash))
            /\ lock' = Held(p)
            /\ Goto(p, "pay_commit", [NoCall EXCEPT !.op = "pay", !.tx = tx, !.hash = hash])
       ELSE /\ lock' = Orphan
            /\ Return(p, "Transaction not found or invalid status")
            /\ UNCHANGED pending
    /\ UNCHANGED <<committed, now, confirmers, xferCount, releases, uuids, monitorVars>>

\* lines 116-119
PayCommit(p) ==
    /\ pc[p] = "pay_commit"
    /\ committed' = pending
    /\ lock' = Free
    /\ Return(p, "Payment confirmed, awaiting transfer confirmation")
    /\ UNCHANGED <<pending, now, confirmers, xferCount, releases, uuids, monitorVars>>

\* The interpreter frees a dropped connection: its open transaction rolls back.
CollectOrphan ==
    /\ lock = Orphan
    /\ lock' = Free
    /\ pending' = committed
    /\ ret' = "none"
    /\ UNCHANGED <<committed, now, pc, call, confirmers, xferCount, releases, uuids, monitorVars>>

\* ----------------------------------------------- confirm_ownership_transfer
XferPrecheck_NoStatus(row, who, role) ==
    IF row = NoRow THEN "Transaction not found"
    ELSE IF role = "buyer" /\ row.buyer_id # who THEN "Invalid buyer confirmation"
    ELSE IF role = "seller" /\ row.seller_id # who THEN "Invalid seller confirmation"
    ELSE "pass"

XferPrecheck_RejectRepeat(row, who, role) ==
    IF row = NoRow THEN "Transaction not found"
    ELSE IF row.status # "payment_confirmed" THEN "Payment not confirmed yet"
    ELSE IF role = "buyer" /\ row.buyer_id # who THEN "Invalid buyer confirmation"
    ELSE IF role = "seller" /\ row.seller_id # who THEN "Invalid seller confirmation"
    ELSE IF role = "buyer" /\ row.buyer_confirmed THEN "Already confirmed"
    ELSE IF role # "buyer" /\ row.seller_confirmed THEN "Already confirmed"
    ELSE "pass"

\* lines 137-147: what the checks on the row just read answer ("pass": go on)
XferPrecheck(row, who, role) ==
    IF row = NoRow THEN "Transaction not found"
    ELSE IF row.status # "payment_confirmed" THEN "Payment not confirmed yet"
    ELSE IF role = "buyer" /\ row.buyer_id # who THEN "Invalid buyer confirmation"
    ELSE IF role = "seller" /\ row.seller_id # who THEN "Invalid seller confirmation"
    ELSE "pass"

\* lines 129-147: the SELECT runs outside any transaction
XferSelect(p, tx, who, role) ==
    /\ CanStart(p)
    /\ LET answer == XferPrecheck(SelectEscrow(committed, tx), who, role) IN
       IF answer = "pass"
       THEN /\ Goto(p, "xfer_update",
                    [NoCall EXCEPT !.op = "xfer", !.tx = tx, !.who = who, !.role = role])
            /\ xferCount' = [xferCount EXCEPT ![tx] = Bump(@)]
       ELSE /\ Return(p, answer)
            /\ UNCHANGED xferCount
    /\ UNCHANGED <<committed, pending, lock, now, confirmers, releases, uuids, monitorVars>>

SetConfirmed_Both(row, role) ==
    [row EXCEPT !.buyer_confirmed = TRUE, !.seller_confirmed = TRUE]

\* lines 150-161: role 'buyer' sets buyer_confirmed, anything else
\* seller_confirmed; WHERE transaction_id = ? only
SetConfirmed(row, role) ==
    IF role = "buyer" THEN [row EXCEPT !.buyer_confirmed = TRUE]
    ELSE [row EXCEPT !.seller_confirmed = TRUE]

BothConfirmed_Either(row) == row.buyer_confirmed \/ row.seller_confirmed

\* line 168
BothConfirmed(row) == row.buyer_confirmed /\ row.seller_confirmed

\* lines 150-168, 174: the UPDATE opens the transaction; the second SELECT
\* reads the row inside it and decides between release and plain commit.
XferUpdate(p) ==
    /\ pc[p] = "xfer_update"
    /\ lock = Free
    /\ LET updated == SetConfirmed(SelectEscrow(committed, call[p].tx), call[p].role) IN
       /\ pending' = WithEscrow(committed, call[p].tx, updated)
       /\ Goto(p, IF BothConfirmed(updated) THEN "rel_status" ELSE "xfer_commit", call[p])
    /\ lock' = Held(p)
    /\ UNCHANGED <<committed, now, confirmers, xferCount, releases, uuids, monitorVars>>

\* ----------------------------------------------------- release_escrow_funds
ReleaseSetStatus_WholeListing(db, tx) ==
    [db EXCEPT !.escrows = [t \in TxIds |->
        IF @[t] # NoRow /\ @[t].listing_id = SelectEscrow(db, tx).listing_id
        THEN [@[t] EXCEPT !.status = "completed"] ELSE @[t]]]

\* lines 190-194: SET status = 'completed' WHERE transaction_id = ?
ReleaseSetStatus(db, tx) ==
    WithEscrow(db, tx, [SelectEscrow(db, tx) EXCEPT !.status = "completed"])

\* lines 197-203: SET status = 'sold' WHERE listing_id = (the escrow's listing)
ReleaseSetListing(db, tx) ==
    [db EXCEPT !.listings[SelectEscrow(db, tx).listing_id].status = "sold"]

ReleaseStatus(p) ==
    /\ pc[p] = "rel_status"
    /\ pending' = ReleaseSetStatus(pending, call[p].tx)
    /\ Goto(p, "rel_listing", [call[p] EXCEPT !.rel = "status"])
    /\ UNCHANGED <<committed, lock, now, confirmers, xferCount, releases, uuids, monitorVars>>

ReleaseListing(p) ==
    /\ pc[p] = "rel_listing"
    /\ pending' = ReleaseSetListing(pending, call[p].tx)
    /\ Goto(p, "xfer_commit_rel", [call[p] EXCEPT !.rel = "ok"])
    /\ UNCHANGED <<committed, lock, now, confirmers, xferCount, releases, uuids, monitorVars>>

\* lines 171-173: commit whatever release_escrow_funds did, return its result
XferCommitRel(p) ==
    /\ pc[p] = "xfer_commit_rel"
    /\ committed' = pending
    /\ lock' = Free
    /\ confirmers' = [confirmers EXCEPT ![call[p].tx] = @ \cup {call[p].who}]
    /\ releases' = [releases EXCEPT ![call[p].tx] =
                        IF call[p].rel \in {"ok", "listing_failed"} THEN Bump(@) ELSE @]
    /\ Return(p, IF call[p].rel = "ok"
                 THEN "Transaction completed! Funds released to seller."
                 ELSE "release failed")
    /\ UNCHANGED <<pending, now, xferCount, uuids, monitorVars>>

\* lines 175-180
XferCommit(p) ==
    /\ pc[p] = "xfer_commit"
    /\ committed' = pending
    /\ lock' = Free
    /\ confirmers' = [confirmers EXCEPT ![call[p].tx] = @ \cup {call[p].who}]
    /\ Return(p, "confirmation recorded. Waiting for other party.")
    /\ UNCHANGED <<pending, now, xferCount, releases, uuids, monitorVars>>

\* ---------------------------------------------------- handle_timeout_refund
RefundMatches_Inclusive(row, at) ==
    /\ row # NoRow
    /\ row.status \in {"pending_payment", "payment_confirmed"}
    /\ row.timeout_at <= at

\* WHERE transaction_id = ? AND status IN ('pending_payment', 'payment_confirmed')
\*   AND timeout_at < ?       (isoformat strings of one clock order as the times)
RefundMatches(row, at) ==
    /\ row # NoRow
    /\ row.status \in {"pending_payment", "payment_confirmed"}
    /\ row.timeout_at < at

RefundSet(row) == [row EXCEPT !.status = "refunded"]

\* lines 217-233: with rowcount 0 the connection is closed (rolled back)
RefundUpdate(p, tx) ==
    /\ CanStart(p)
    /\ lock = Free
    /\ LET row == SelectEscrow(committed, tx) IN
       IF RefundMatches(row, now)
       THEN /\ pending' = WithEscrow(committed, tx, RefundSet(row))
            /\ lock' = Held(p)
            /\ Goto(p, "refund_commit", [NoCall EXCEPT !.op = "refund", !.tx = tx, !.at = now])
       ELSE /\ Return(p, "Transaction not eligible for refund")
            /\ UNCHANGED <<pending, lock>>
    /\ UNCHANGED <<committed, now, confirmers, xferCount, releases, uuids, monitorVars>>

\* lines 228-230
RefundCommit(p) ==
    /\ pc[p] = "refund_commit"
    /\ committed' = pending
    /\ lock' = Free
    /\ Return(p, "Transaction refunded due to timeout")
    /\ UNCHANGED <<pending, now, confirmers, xferCount, releases, uuids, monitorVars>>

\* ---------------------------------------------------------------- the clock
\* The instants are hours apart and a call takes far less: the clock moves
\* between calls.
Tick(t) ==
    /\ t > now
    /\ \A p \in Procs : pc[p] = "idle"
    /\ now' = t
    /\ ret' = "none"
    /\ UNCHANGED <<committed, pending, lock, pc, call, confirmers, xferCount, releases, uuids, monitorVars>>

\* ------------------------------------------------------------ specification
Next ==
    \/ \E p \in Procs, l \in ListingArgs, b \in CreateBuyers : CreateSelect(p, l, b)
    \/ \E p \in Procs : CreateInsert(p)
    \/ \E p \in Procs : CreateCommit(p)
    \/ \E p \in Procs, tx \in TxArgs, h \in Hashes : PayUpdate(p, tx, h)
    \/ \E p \in Procs : PayCommit(p)
    \/ CollectOrphan
    \/ \E p \in Procs, tx \in TxArgs, u \in UserIds, r \in Roles : XferSelect(p, tx, u, r)
    \/ \E p \in Procs : XferUpdate(p)
    \/ \E p \in Procs : ReleaseStatus(p)
    \/ \E p \in Procs : ReleaseListing(p)
    \/ \E p \in Procs : XferCommitRel(p)
    \/ \E p \in Procs : XferCommit(p)
    \/ \E p \in Procs, tx \in TxArgs : RefundUpdate(p, tx)
    \/ \E p \in Procs : RefundCommit(p)
    \/ \E t \in Instants : Tick(t)

Spec == Init /\ [][Next]_vars

\* --------------------------------------------- several escrows of a listing
\* uuid4 produces every id of TxIds: the buyers open their escrows for the
\* listing at hour 0, while it is active; each party confirms an escrow once,
\* and the clock goes to its end.
ListingBuyers == UserIds \ {ListingSeller}
ListingInit == EscrowInit /\ uuids = TxIds
FirstConfirmation(tx, who, role) ==
    LET row == SelectEscrow(committed, tx) IN
    /\ row # NoRow
    /\ \/ role = "buyer" /\ who = row.buyer_id /\ ~row.buyer_confirmed
       \/ role = "seller" /\ who = row.seller_id /\ ~row.seller_confirmed
ListingNext ==
    \/ \E p \in Procs, l \in Listings, b \in ListingBuyers :
          now = 0 /\ CreateSelect(p, l, b)
    \/ \E p \in Procs : CreateInsert(p)
    \/ \E p \in Procs : CreateCommit(p)
    \/ \E p \in Procs, tx \in TxIds, h \in Hashes : PayUpdate(p, tx, h)
    \/ \E p \in Procs : PayCommit(p)
    \/ CollectOrphan
    \/ \E p \in Procs, tx \in TxIds, u \in UserIds, r \in Roles :
          FirstConfirmation(tx, u, r) /\ XferSelect(p, tx, u, r)
    \/ \E p \in Procs : XferUpdate(p)
    \/ \E p \in Procs : ReleaseStatus(p)
    \/ \E p \in Procs : ReleaseListing(p)
    \/ \E p \in Procs : XferCommitRel(p)
    \/ \E p \in Procs : XferCommit(p)
    \/ \E p \in Procs, tx \in TxIds : RefundUpdate(p, tx)
    \/ \E p \in Procs : RefundCommit(p)
    \/ Tick(MaxTime)

ListingSpec == ListingInit /\ [][ListingNext]_vars

\* ---------------------------------------------------------------- liveness
\* What runs without anybody outside the repository: the calls the API
\* (api/marketplace_api_complete.py) makes for its users, create, confirm
\* payment and confirm transfer, the statements of a call in flight, the
\* garbage collector. handle_timeout_refund has no caller in the repository:
\* its first statement is the one step that is left out.
CodeStep ==
    \/ \E p \in Procs, l \in ListingArgs, b \in CreateBuyers : CreateSelect(p, l, b)
    \/ \E p \in Procs : CreateInsert(p) \/ CreateCommit(p) \/ PayCommit(p)
    \/ \E p \in Procs, tx \in TxArgs, h \in Hashes : PayUpdate(p, tx, h)
    \/ CollectOrphan
    \/ \E p \in Procs, tx \in TxArgs, u \in UserIds, r \in Roles : XferSelect(p, tx, u, r)
    \/ \E p \in Procs : XferUpdate(p) \/ ReleaseStatus(p) \/ ReleaseListing(p)
    \/ \E p \in Procs : XferCommitRel(p) \/ XferCommit(p) \/ RefundCommit(p)
ClockStep == \E t \in Instants : Tick(t)

\* the system keeps running and time advances
LiveSpec == Init /\ [][Next]_vars /\ WF_vars(CodeStep) /\ SF_vars(ClockStep)

\* ------------------------------------------------------------------ faults
\* A statement of release_escrow_funds raises (I/O error, full disk, missing
\* table): lines 210-212 swallow it and return a failure, and line 171 commits
\* what the transaction holds.
ReleaseStatusFails(p) ==
    /\ pc[p] = "rel_status"
    /\ Goto(p, "xfer_commit_rel", [call[p] EXCEPT !.rel = "status_failed"])
    /\ UNCHANGED <<committed, pending, lock, now, confirmers, xferCount, releases, uuids, monitorVars>>

ReleaseListingFails(p) ==
    /\ pc[p] = "rel_listing"
    /\ Goto(p, "xfer_commit_rel", [call[p] EXCEPT !.rel = "listing_failed"])
    /\ UNCHANGED <<committed, pending, lock, now, confirmers, xferCount, releases, uuids, monitorVars>>

\* The wait for the write lock outlasts sqlite3's busy timeout: the statement
\* raises "database is locked", the except clause returns a failure, and the
\* connection, which holds no lock, is dropped.
WriteLocked(p) ==
    /\ pc[p] \in {"create_insert", "xfer_update"}
    /\ lock # Free
    /\ Return(p, "database is locked")
    /\ UNCHANGED <<committed, pending, lock, now, confirmers, xferCount, releases, uuids, monitorVars>>

\* the same for a call whose first statement is the UPDATE (lines 107, 220)
FirstWriteLocked(p) ==
    /\ CanStart(p)
    /\ lock # Free
    /\ Return(p, "database is locked")
    /\ UNCHANGED <<committed, pending, lock, now, confirmers, xferCount, releases, uuids, monitorVars>>

FaultNext ==
    \/ Next
    \/ \E p \in Procs : ReleaseStatusFails(p)
    \/ \E p \in Procs : ReleaseListingFails(p)
    \/ \E p \in Procs : WriteLocked(p)
    \/ \E p \in Procs : FirstWriteLocked(p)

FaultSpec == Init /\ [][FaultNext]_vars

\* ===================================== WorkingTONMonitor (src/core/monitor.py)
\* lines 829-838: an incoming transaction: it has an in_msg with a nonempty
\* source and a positive value
Qualifies(tx) == tx.in_msg /\ tx.source # NoAddr /\ tx.value > 0

\* lines 825-826: "if last_lt and tx_lt <= last_lt: continue"
AlreadySeen(last_lt, tx_lt) == last_lt # NoLt /\ tx_lt <= last_lt

\* utils/address_normalizer.py lines 49-56: the workchain and the account of
\* a raw address
parse_raw(addr) == [wc |-> addr.wc, account |-> addr.acct]

\* lines 39-47: byte 1 read as a signed number, bytes 2-33, and whether the
\* checksum is right
parse_user_friendly(addr) ==
    [wc |-> IF addr.wc >= 128 THEN addr.wc - 256 ELSE addr.wc,
     account |-> addr.acct, ok |-> addr.crc_ok]

\* lines 58-66: tag, workchain byte (wc & 0xFF), account and CRC, in the
\* standard and in the URL-safe alphabet
build_friendly(wc, account, bounceable, testnet) ==
    LET tag == CASE bounceable /\ ~testnet -> "EQ"
                 [] ~bounceable /\ ~testnet -> "UQ"
                 [] bounceable /\ testnet -> "kQ"
                 [] OTHER -> "0Q"
        byte == wc % 256
        form == [EQ |-> <<"EQ_std", "EQ_url">>, UQ |-> <<"UQ_std", "UQ_url">>,
                 kQ |-> <<"kQ_std", "kQ_url">>, 0Q |-> <<"0Q_std", "0Q_url">>]
    IN <<Enc(byte, account, form[tag][1]), Enc(byte, account, form[tag][2])>>

\* lines 111-116 raise for a string that is neither "wc:hex" nor 36 bytes in
\* base64
Parses(address) == address.acct # ""

\* monitor.py lines 32-33, address_normalizer.py line 134: the input alone
get_mainnet_variants_Literal(address) == {address}

\* lines 102-134: the four mainnet forms of the account of the address
\* (list(set(...)): in no particular order); the address itself where it
\* cannot be parsed (lines 132-134).  The checksum is not looked at (line 116).
get_mainnet_variants(address) ==
    IF ~Parses(address) THEN {address}
    ELSE LET p == IF address.form = "raw" THEN parse_raw(address)
                  ELSE parse_user_friendly(address)
             bounceable_mainnet == build_friendly(p.wc, p.account, TRUE, FALSE)
             non_bounceable_mainnet == build_friendly(p.wc, p.account, FALSE, FALSE)
         IN {bounceable_mainnet[1], bounceable_mainnet[2],
             non_bounceable_mainnet[1], non_bounceable_mainnet[2]}

\* WHERE main_wallet_address = ? OR variant_address_1 = ? OR ... OR
\* variant_address_4 = ?  with the same string for every parameter
Owns(row, address) ==
    row # NoUserRow /\ (row.main = address \/ address \in row.variants)

\* lines 398-407, 209-218, 849-858: fetchone() of that SELECT: the first row
\* of the table scan, NoUser without a row
SelectUser(db, address) ==
    LET rows == {u \in MonUserIds : Owns(db.users[u], address)} IN
    IF rows = {} THEN NoUser ELSE CHOOSE u \in rows : \A v \in rows : u <= v

\* lines 845-859: the SELECT for one variant of the sender's address after
\* the other, until one finds a user.  (Every row that holds one mainnet
\* form of an account holds all four, so the order makes no difference.)
FindUser(db, source) ==
    LET found == {SelectUser(db, variant) : variant \in get_mainnet_variants(source)}
                     \ {NoUser} IN
    IF found = {} THEN NoUser ELSE CHOOSE u \in found : \A v \in found : u <= v

\* lines 884-896: INSERT OR REPLACE INTO user_balances with COALESCE(old, 0) + value
Credit(balance, amount) ==
    IF balance = NoBalance
    THEN [current_balance |-> amount, deposit_count |-> 1]
    ELSE [current_balance |-> balance.current_balance + amount,
          deposit_count |-> balance.deposit_count + 1]

\* lines 866-896: unless a row with this hash exists, insert the transaction
\* and credit the user, in one database transaction
StoreDeposit(db, h, user_id) ==
    IF db.txs[h] # NoTx THEN db
    ELSE [db EXCEPT
            !.txs[h] = [user_id |-> user_id, amount |-> ChainTxs[h].value,
                        logical_time |-> ChainTxs[h].lt,
                        to_address |-> WEBSITE_WALLET],
            !.balances[user_id] = Credit(@, ChainTxs[h].value)]

\* lines 778-792: monitoring_loop starts and reads the checkpoint
PollerStart ==
    /\ poller.pc \in {"stopped", "halted"}
    /\ poller' = [PollerStopped EXCEPT !.pc = "idle", !.last_lt = mdb.last_logical_time]
    /\ hist' = [hist EXCEPT !.failed = 0]
    /\ UNCHANGED <<escrowVars, mdb, prod>>

\* lines 796-818: one getTransactions request; the loop starts on the answer
PollerFetch(batch) ==
    /\ poller.pc = "idle"
    /\ poller' = [poller EXCEPT !.pc = "batch", !.batch = batch, !.i = 1]
    /\ hist' = [hist EXCEPT
                  !.delivered = @ \cup {batch[k] : k \in 1..Len(batch)},
                  !.start_lt = poller.last_lt,
                  !.passed = <<>>]
    /\ UNCHANGED <<escrowVars, mdb, prod>>

\* lines 822-912: one iteration of "for tx in transactions"
PollerProcess ==
    /\ poller.pc = "batch"
    /\ poller.i <= Len(poller.batch)
    /\ LET h == poller.batch[poller.i]
           tx == ChainTxs[h]
           user_id == FindUser(mdb, tx.source)
       IN
       IF AlreadySeen(poller.last_lt, tx.lt) \/ ~Qualifies(tx)
       THEN /\ poller' = [poller EXCEPT !.i = @ + 1]
            /\ UNCHANGED <<mdb, hist>>
       ELSE /\ mdb' = IF user_id # NoUser THEN StoreDeposit(mdb, h, user_id) ELSE mdb
            /\ hist' = [hist EXCEPT
                          !.passed = Append(@, h),
                          !.credits[h] =
                              IF user_id # NoUser /\ mdb.txs[h] = NoTx
                              THEN Bump(@) ELSE @]
            /\ poller' = [poller EXCEPT
                            !.i = @ + 1,
                            !.last_lt = IF @ = NoLt \/ tx.lt > @ THEN tx.lt ELSE @]
    /\ UNCHANGED <<escrowVars, prod>>

\* line 934: a cycle that came this far leaves no errors counted
ErrorsAfterSuccess_Keep(n) == n
ErrorsAfterSuccess(n) == 0

\* lines 919-935: after the batch, save last_lt as the checkpoint
PollerSave ==
    /\ poller.pc = "batch"
    /\ poller.i > Len(poller.batch)
    /\ mdb' = [mdb EXCEPT !.last_logical_time = poller.last_lt]
    /\ poller' = [poller EXCEPT !.pc = "idle", !.batch = <<>>, !.i = 0,
                                !.consecutive_errors = ErrorsAfterSuccess(@)]
    /\ hist' = [hist EXCEPT !.failed = 0]
    /\ UNCHANGED <<escrowVars, prod>>

\* lines 971-979 (stop: os._exit) or a kill: the process ends where it is,
\* its locals are gone, an open database transaction is rolled back
PollerExit ==
    /\ poller.pc # "stopped"
    /\ poller' = PollerStopped
    /\ UNCHANGED <<escrowVars, mdb, prod, hist>>

\* line 428: telegram_id or f"user_{main_address[:10]}": the first ten
\* characters tell the account and, of the form, raw, EQ, UQ or kQ
Prefix(form) ==
    CASE form \in {"EQ_std", "EQ_url"} -> "EQ"
      [] form \in {"UQ_std", "UQ_url"} -> "UQ"
      [] OTHER -> form
DefaultTelegramId(main_address) == <<"user_", main_address.acct, Prefix(main_address.form)>>

\* lines 397-407: is there a user with this string in one of the columns
ExistingUser_MainOnly(db, wallet_address) ==
    LET rows == {u \in MonUserIds : db.users[u] # NoUserRow
                                    /\ db.users[u].main = wallet_address} IN
    IF rows = {} THEN NoUser ELSE CHOOSE u \in rows : \A v \in rows : u <= v
ExistingUser(db, wallet_address) == SelectUser(db, wallet_address)

\* lines 426-461: INSERT INTO users, with telegram_id and main_wallet_address
\* UNIQUE, and INSERT INTO user_balances; an IntegrityError rolls both back
\* (lines 480-482)
InsertUser(db, wallet_address, telegram_id) ==
    LET tg == IF telegram_id = NoTg THEN DefaultTelegramId(wallet_address)
              ELSE telegram_id
        taken == \E u \in MonUserIds :
                    /\ db.users[u] # NoUserRow
                    /\ (db.users[u].telegram_id = tg \/ db.users[u].main = wallet_address)
        user_id == Cardinality({u \in MonUserIds : db.users[u] # NoUserRow}) + 1
    IN
    IF taken \/ user_id \notin MonUserIds THEN db
    ELSE [db EXCEPT
            !.users[user_id] = [telegram_id |-> tg, main |-> wallet_address,
                                variants |-> get_mainnet_variants(wallet_address)],
            !.balances[user_id] = [current_balance |-> 0, deposit_count |-> 0]]

\* lines 386-482: create_user_with_wallet: the database it leaves and the
\* success and user_id of the dictionary it returns
create_user_with_wallet(db, wallet_address, telegram_id) ==
    LET existing_user == ExistingUser(db, wallet_address)
        after == InsertUser(db, wallet_address, telegram_id)
    IN
    IF existing_user # NoUser
    THEN [db |-> db, success |-> TRUE, user_id |-> existing_user]
    ELSE IF after = db
    THEN [db |-> db, success |-> FALSE, user_id |-> NoUser]
    ELSE [db |-> after, success |-> TRUE,
          user_id |-> CHOOSE u \in MonUserIds : after.users[u] # db.users[u]]

\* a call of create_user_with_wallet (API thread)
CreateUser(wallet_address, telegram_id) ==
    /\ mdb' = create_user_with_wallet(mdb, wallet_address, telegram_id).db
    /\ UNCHANGED <<escrowVars, poller, prod, hist>>

\* the address the indexer reports senders in, and users register with
RegisteredForm == "EQ_url"

\* lines 306-316: SUM(amount), COUNT(*) of the rows with to_address = the
\* deposit address of line 283 and amount > 0
RECURSIVE SumAmounts(_, _)
SumAmounts(db, hs) ==
    IF hs = {} THEN 0
    ELSE LET h == CHOOSE x \in hs : TRUE IN db.txs[h].amount + SumAmounts(db, hs \ {h})
DepositRows(db) ==
    {h \in TxHashes : /\ db.txs[h] # NoTx
                      /\ db.txs[h].to_address = actual_deposit_address
                      /\ db.txs[h].amount > 0}

\* the user ids refresh_balance is called with: those of the first
\* registration of each account
RefreshIds == 1..Cardinality(Accounts)

\* lines 274-384: refresh_balance(user_id) (API thread)
RefreshBalance(user_id) ==
    /\ mdb' = [mdb EXCEPT !.balances[user_id] =
                  [current_balance |-> SumAmounts(mdb, DepositRows(mdb)),
                   deposit_count |-> Cardinality(DepositRows(mdb))]]
    /\ UNCHANGED <<escrowVars, poller, prod, hist>>

MonNext ==
    \/ PollerStart
    \/ \E batch \in Batches : PollerFetch(batch)
    \/ PollerProcess
    \/ PollerSave
    \/ PollerExit
    \/ \E a \in Accounts : CreateUser(Addr(a, RegisteredForm), NoTg)
    \/ \E u \in RefreshIds : RefreshBalance(u)

MonSpec == Init /\ [][MonNext]_vars

\* The address book: accounts are registered under any textual form, and
\* under strings that are no address, with or without a telegram_id, while the poller takes in the deposits of the
\* registering account, one to an answer: h1 names its sender in the
\* bounceable form, h2 in the raw form.
BookDeposits == {h \in TxHashes : ChainTxs[h].source \in Addresses /\ ChainTxs[h].value > 0}
\* at most MaxCount users are registered
BookNext ==
    \/ \E address \in Addresses \cup Malformed, telegram_id \in TgArgs :
          /\ Cardinality({u \in MonUserIds : mdb.users[u] # NoUserRow}) < MaxCount
          /\ CreateUser(address, telegram_id)
    \/ PollerStart
    \/ \E h \in BookDeposits : PollerFetch(<<h>>)
    \/ PollerProcess
    \/ PollerSave
    \/ PollerExit

BookSpec == Init /\ [][BookNext]_vars

\* ------------------------------------------------------------------ faults
\* lines 789-791: reading the checkpoint raised; the loop starts from None
PollerStartReadFails ==
    /\ poller.pc \in {"stopped", "halted"}
    /\ poller' = [PollerStopped EXCEPT !.pc = "idle", !.last_lt = NoLt]
    /\ hist' = [hist EXCEPT !.failed = 0]
    /\ UNCHANGED <<escrowVars, mdb, prod>>

\* lines 910-912: processing a transaction raised after the checks of lines
\* 825-838; the with-block rolled back, the loop goes on with the next one
PollerProcessRaises ==
    /\ poller.pc = "batch"
    /\ poller.i <= Len(poller.batch)
    /\ LET tx == ChainTxs[poller.batch[poller.i]] IN
       ~AlreadySeen(poller.last_lt, tx.lt) /\ Qualifies(tx)
    /\ poller' = [poller EXCEPT !.i = @ + 1]
    /\ hist' = [hist EXCEPT !.passed = Append(@, poller.batch[poller.i])]
    /\ UNCHANGED <<escrowVars, mdb, prod>>

\* lines 931-935: the UPDATE of system_status raised; nothing is saved, the
\* cycle ends as a good one
PollerSaveFails ==
    /\ poller.pc = "batch"
    /\ poller.i > Len(poller.batch)
    /\ poller' = [poller EXCEPT !.pc = "idle", !.batch = <<>>, !.i = 0,
                                !.consecutive_errors = ErrorsAfterSuccess(@)]
    /\ hist' = [hist EXCEPT !.failed = 0]
    /\ UNCHANGED <<escrowVars, mdb, prod>>

\* lines 943-945
TooManyErrors(n) == n >= max_consecutive_errors

\* lines 806-816, 939-947: the request raised, or the answer was not 200 or
\* not ok: the cycle failed; the loop ends when too many failed in a row
PollerFetchFails ==
    /\ poller.pc = "idle"
    /\ LET n == poller.consecutive_errors + 1 IN
       poller' = [poller EXCEPT !.consecutive_errors = n,
                                !.pc = IF TooManyErrors(n) THEN "halted" ELSE "idle"]
    /\ hist' = [hist EXCEPT !.failed = @ + 1]
    /\ UNCHANGED <<escrowVars, mdb, prod>>

MonFaultNext ==
    \/ MonNext
    \/ PollerStartReadFails
    \/ PollerProcessRaises
    \/ PollerSaveFails
    \/ PollerFetchFails

MonFaultSpec == Init /\ [][MonFaultNext]_vars

\* ====================== ProductionTONMonitor (src/core/production_monitor.py)
\* lines 207-217: a deposit: it has an in_msg to the deposit address with a
\* positive value (every in_msg of the wallet's transactions is addressed to
\* the wallet); the source is not looked at
IsDeposit(tx) == tx.in_msg /\ tx.value > 0

StoredHashes(db) == {h \in TxHashes : db.txs[h] # NoTx}

\* lines 70-93 (_load_initial_state, from __init__): the checkpoint, and the
\* hashes stored during the last hour (any part of the stored ones)
ProdLoad(recent) ==
    /\ prod.pc = "stopped"
    /\ recent \subseteq StoredHashes(mdb)
    /\ prod' = [ProdStopped EXCEPT !.pc = "idle",
                                   !.last_logical_time = mdb.last_logical_time,
                                   !.processed_transactions = recent]
    /\ UNCHANGED <<escrowVars, mdb, poller, hist>>

\* lines 144-165: a request can be made: _fetch_transactions has passed the
\* circuit breaker, or is between two attempts
CanAttempt == \/ prod.pc = "idle" /\ ~prod.circuit_breaker.is_open
              \/ prod.pc = "attempt"

\* lines 173-178, 135-138, 372-385: status 200 and ok: _record_api_success;
\* _fetch_transactions answers with a list of n transactions
ProdFetch(n) ==
    /\ CanAttempt
    /\ prod' = [prod EXCEPT !.pc = "take", !.left = n, !.attempt = 0,
                            !.circuit_breaker = BreakerClosed]
    /\ UNCHANGED <<escrowVars, mdb, poller, hist>>

\* lines 199-248 (_process_transaction): None for a hash in
\* processed_transactions and for what is no deposit; otherwise the hash is
\* added to the set.  Lines 250-269, 391: then _find_user_by_transaction.
\* The list may hold any transactions of the wallet in any order: h is the
\* one the for loop of line 387 reaches next.
ProdTake(h) ==
    /\ prod.pc = "take"
    /\ prod.left > 0
    /\ hist.credits[h] < MaxCount
    /\ IF h \in prod.processed_transactions \/ ~IsDeposit(ChainTxs[h])
       THEN prod' = [prod EXCEPT !.left = @ - 1]
       ELSE prod' = [prod EXCEPT !.pc = "store", !.left = @ - 1, !.tx = h,
                                 !.user_id = SelectUser(mdb, ChainTxs[h].source),
                                 !.processed_transactions = @ \cup {h}]
    /\ UNCHANGED <<escrowVars, mdb, poller, hist>>

\* lines 275-283: INSERT OR IGNORE INTO transactions, committed by
\* execute_query
ProdInsertOrIgnore(db, h, user_id) ==
    IF db.txs[h] # NoTx THEN db
    ELSE [db EXCEPT !.txs[h] = [user_id |-> user_id, amount |-> ChainTxs[h].value,
                                logical_time |-> ChainTxs[h].lt,
                                to_address |-> WEBSITE_WALLET]]

ProdStore ==
    /\ prod.pc = "store"
    /\ mdb' = ProdInsertOrIgnore(mdb, prod.tx, prod.user_id)
    /\ prod' = [prod EXCEPT !.pc = IF prod.user_id # NoUser THEN "balance" ELSE "advance"]
    /\ UNCHANGED <<escrowVars, poller, hist>>

\* lines 286-287, 309-332 (_update_user_balance): balance := old + amount,
\* by UPDATE or, without a row, INSERT; committed by execute_query
ProdBalance ==
    /\ prod.pc = "balance"
    /\ LET old == mdb.balances[prod.user_id]
           amount == ChainTxs[prod.tx].value IN
       mdb' = [mdb EXCEPT !.balances[prod.user_id] =
                  IF old = NoBalance
                  THEN [current_balance |-> amount, deposit_count |-> 0]
                  ELSE [old EXCEPT !.current_balance = @ + amount]]
    /\ hist' = [hist EXCEPT !.credits[prod.tx] = Bump(@)]
    /\ prod' = [prod EXCEPT !.pc = "stats"]
    /\ UNCHANGED <<escrowVars, poller>>

\* lines 334-359: the user's statistics, transaction_count + 1 among them,
\* in a statement and commit of their own
ProdStats ==
    /\ prod.pc = "stats"
    /\ mdb' = [mdb EXCEPT !.balances[prod.user_id].deposit_count = @ + 1]
    /\ prod' = [prod EXCEPT !.pc = "advance"]
    /\ UNCHANGED <<escrowVars, poller, hist>>

\* lines 400-402: last_logical_time := max(last_logical_time, logical_time)
ProdAdvance ==
    /\ prod.pc = "advance"
    /\ prod' = [prod EXCEPT
                  !.pc = "take", !.tx = "-", !.user_id = NoUser,
                  !.last_logical_time =
                      IF ChainTxs[prod.tx].lt > @ THEN ChainTxs[prod.tx].lt ELSE @]
    /\ UNCHANGED <<escrowVars, mdb, poller, hist>>

\* lines 404-414, 96-108: after the batch, _update_system_status('healthy')
\* writes last_logical_time
ProdFinish ==
    /\ prod.pc = "take"
    /\ prod.left = 0
    /\ mdb' = [mdb EXCEPT !.last_logical_time = prod.last_logical_time]
    /\ prod' = [prod EXCEPT !.pc = "idle", !.error_count = 0]
    /\ UNCHANGED <<escrowVars, poller, hist>>

\* lines 60-68, 484-507: a signal; stop() writes the status row, and with
\* it last_logical_time, and the process exits where it is
ProdStop ==
    /\ prod.pc # "stopped"
    /\ mdb' = [mdb EXCEPT !.last_logical_time = prod.last_logical_time]
    /\ prod' = ProdStopped
    /\ UNCHANGED <<escrowVars, poller, hist>>

\* the process is killed: nothing more is written
ProdExit ==
    /\ prod.pc # "stopped"
    /\ prod' = ProdStopped
    /\ UNCHANGED <<escrowVars, mdb, poller, hist>>

ProdNext ==
    \/ \E recent \in SUBSET TxHashes : ProdLoad(recent)
    \/ \E n \in 0..MaxBatch : ProdFetch(n)
    \/ \E h \in TxHashes : ProdTake(h)
    \/ ProdStore
    \/ ProdBalance
    \/ ProdStats
    \/ ProdAdvance
    \/ ProdFinish
    \/ ProdStop
    \/ ProdExit
    \/ \E a \in Accounts : CreateUser(Addr(a, RegisteredForm), NoTg)

ProdSpec == Init /\ [][ProdNext]_vars

\* ------------------------------------------------------------------ faults
\* lines 125-133: _record_api_failure
RecordApiFailure(cb) ==
    [failures |-> cb.failures + 1, is_open |-> cb.failures + 1 >= breaker_failures]

\* lines 377-379: _fetch_transactions returned None: the check has failed
CheckFailed(p, cb) ==
    [p EXCEPT !.pc = "idle", !.attempt = 0, !.circuit_breaker = cb,
              !.error_count = Bump(@)]

\* seconds since last_failure at which the breaker is looked at
BreakerWaits == {breaker_reset_seconds, breaker_reset_seconds + 1}

BreakerExpired_Inclusive(elapsed) == elapsed >= breaker_reset_seconds

\* line 117: time.time() - last_failure > 30
BreakerExpired(elapsed) == elapsed > breaker_reset_seconds

\* lines 112-123, 144-146: the breaker is open; after more than 30 seconds
\* it is reset and the request goes out, before that the call returns None
ProdBreakerOpen(elapsed) ==
    /\ prod.pc = "idle"
    /\ prod.circuit_breaker.is_open
    /\ prod' = IF BreakerExpired(elapsed)
               THEN [prod EXCEPT !.pc = "attempt", !.attempt = 0,
                                 !.circuit_breaker = BreakerClosed]
               ELSE CheckFailed(prod, prod.circuit_breaker)
    /\ UNCHANGED <<escrowVars, mdb, poller, hist>>

\* lines 165-197: an attempt ended in a status other than 200, a timeout or
\* an exception; after the last one the failure is recorded
ProdAttemptFails ==
    /\ CanAttempt
    /\ prod' = IF prod.attempt + 1 < max_retries
               THEN [prod EXCEPT !.pc = "attempt", !.attempt = @ + 1]
               ELSE CheckFailed(prod, RecordApiFailure(prod.circuit_breaker))
    /\ UNCHANGED <<escrowVars, mdb, poller, hist>>

\* lines 179-182: status 200 with ok false: the failure is recorded and the
\* call returns None at once
ProdAnswerNotOk ==
    /\ CanAttempt
    /\ prod' = CheckFailed(prod, RecordApiFailure(prod.circuit_breaker))
    /\ UNCHANGED <<escrowVars, mdb, poller, hist>>

\* lines 271-303: the INSERT raises (database locked, disk I/O error): the
\* except clause of _store_transaction logs it and the loop goes on
ProdStoreFails ==
    /\ prod.pc = "store"
    /\ prod' = [prod EXCEPT !.pc = "advance"]
    /\ UNCHANGED <<escrowVars, mdb, poller, hist>>

\* the steps of _monitoring_loop and of what it calls
ProdLoopStep ==
    \/ \E n \in 0..MaxBatch : ProdFetch(n)
    \/ \E h \in TxHashes : ProdTake(h)
    \/ ProdStore
    \/ ProdBalance
    \/ ProdStats
    \/ ProdAdvance
    \/ ProdFinish
    \/ \E elapsed \in BreakerWaits : ProdBreakerOpen(elapsed)
    \/ ProdAttemptFails
    \/ ProdAnswerNotOk
    \/ ProdStoreFails

ProdFaultNext ==
    \/ ProdNext
    \/ \E elapsed \in BreakerWaits : ProdBreakerOpen(elapsed)
    \/ ProdAttemptFails
    \/ ProdAnswerNotOk
    \/ ProdStoreFails

\* While the process lives, the event loop goes on running the loop.
ProdFaultSpec == Init /\ [][ProdFaultNext]_vars /\ WF_vars(ProdLoopStep)

\* ================================================================== claims
Row(t) == committed.escrows[t]
Terminal(row) == row.status \in {"completed", "refunded"}
XferInFlight(t) == {p \in Procs : call[p].op = "xfer" /\ call[p].tx = t}
OneConfirmed(row) == row.buyer_confirmed # row.seller_confirmed

\* C1: when no more than the two confirmations, one setting each flag, have
\* been made on an escrow, the transition to Completed is committed exactly
\* once: never twice while at most two calls passed the checks, and once both
\* calls have returned and both flags are set, exactly once.
C1_ExactlyOneRelease ==
    \A t \in TxIds :
        /\ xferCount[t] <= 2 => releases[t] <= 1
        /\ ( /\ xferCount[t] = 2
             /\ XferInFlight(t) = {}
             /\ Row(t) # NoRow
             /\ BothConfirmed(Row(t)) )
           => releases[t] = 1 /\ Row(t).status = "completed"

\* the race: the buyer's call holds the write lock with its flag not yet
\* committed while the seller's call, past the status check, waits for it
C1_Witness ==
    \E p, q \in Procs :
        /\ pc[p] = "xfer_commit" /\ call[p].role = "buyer"
        /\ pc[q] = "xfer_update" /\ call[q].role = "seller"
        /\ call[p].tx = call[q].tx
        /\ call[q].who = Row(call[q].tx).seller_id
        /\ ~Row(call[p].tx).buyer_confirmed /\ ~Row(call[p].tx).seller_confirmed
        /\ xferCount[call[p].tx] = 2

\* C2: once an escrow is Completed or Refunded, no step changes its status
\* or its confirmation flags.
C2_TerminalIsFinal ==
    [][\A t \in TxIds :
          Terminal(Row(t)) =>
              /\ committed'.escrows[t].status = Row(t).status
              /\ committed'.escrows[t].buyer_confirmed = Row(t).buyer_confirmed
              /\ committed'.escrows[t].seller_confirmed = Row(t).seller_confirmed]_vars

\* C3: a Completed escrow has had a committed confirmation by its buyer_id
\* and one by its seller_id (so never confirmations of one id only).
C3_DualConfirmation ==
    \A t \in TxIds :
        (Row(t) # NoRow /\ Row(t).status = "completed")
            => /\ Row(t).buyer_id \in confirmers[t]
               /\ Row(t).seller_id \in confirmers[t]
               /\ Cardinality(confirmers[t]) >= 2

\* the role of the claim: the claimed role's stored id is the confirmer
RoleMatches(row, who, role) ==
    /\ row # NoRow
    /\ \/ role = "buyer" /\ who = row.buyer_id
       \/ role = "seller" /\ who = row.seller_id

\* C4: a call whose (confirmer, role) pair does not match the stored ids is
\* rejected at the checks, and a flag is only ever set by a matching call.
C4_RoleMustMatch ==
    [][/\ \A p \in Procs, tx \in TxArgs, who \in UserIds, role \in Roles :
             (XferSelect(p, tx, who, role)
                  /\ ~RoleMatches(SelectEscrow(committed, tx), who, role))
                 => pc'[p] = "idle" /\ ret' # "none"
       /\ \A p \in Procs :
             XferUpdate(p) => RoleMatches(Row(call[p].tx), call[p].who, call[p].role)
      ]_vars

\* C5: in every committed state an escrow is Completed only with its listing
\* sold, and a listing is sold only with a Completed escrow on it.
C5_AtomicCompletion ==
    /\ \A t \in TxIds :
          (Row(t) # NoRow /\ Row(t).status = "completed")
              => committed.listings[Row(t).listing_id].status = "sold"
    /\ \A l \in Listings :
          committed.listings[l].status = "sold"
              => \E t \in TxIds : /\ Row(t) # NoRow
                                  /\ Row(t).listing_id = l
                                  /\ Row(t).status = "completed"

\* what a caller reads as success: the results with success = True
Successes ==
    {"created", "Payment confirmed, awaiting transfer confirmation",
     "confirmation recorded. Waiting for other party.",
     "Transaction completed! Funds released to seller.",
     "Transaction refunded due to timeout"}
Failed(result) == result \notin Successes \cup {"none"}
Rejected(p) == pc'[p] = "idle" /\ Failed(ret') /\ committed' = committed

\* C6: confirm_payment_received is rejected, the database unchanged, unless
\* the escrow exists in PendingPayment; then the call goes on to its commit,
\* which returns success and changes exactly status (to PaymentConfirmed)
\* and payment_hash (to the argument) of a row still in PendingPayment.
C6_PaymentOnlyFromPending ==
    [][/\ \A p \in Procs, tx \in TxArgs, h \in Hashes :
             PayUpdate(p, tx, h) =>
                 LET row == SelectEscrow(committed, tx) IN
                 IF row # NoRow /\ row.status = "pending_payment"
                 THEN pc'[p] = "pay_commit" /\ committed' = committed
                 ELSE Rejected(p)
       /\ \A p \in Procs :
             PayCommit(p) =>
                 /\ ret' = "Payment confirmed, awaiting transfer confirmation"
                 /\ Row(call[p].tx).status = "pending_payment"
                 /\ committed' = WithEscrow(committed, call[p].tx,
                                    [Row(call[p].tx) EXCEPT
                                        !.status = "payment_confirmed",
                                        !.payment_hash = call[p].hash])
      ]_vars

C6_Witness ==
    /\ ret = "Payment confirmed, awaiting transfer confirmation"
    /\ \E t \in TxIds : /\ Row(t).status = "payment_confirmed"
                        /\ Row(t).payment_hash \in Hashes

\* C7: confirm_ownership_transfer goes past its checks only on an escrow it
\* reads in PaymentConfirmed; reading any other status (or no row) it is
\* rejected and writes nothing.  On an escrow in PendingPayment
\* handle_timeout_refund before the deadline is rejected too, while
\* confirm_payment_received goes on to its commit.
C7_TransferOnlyFromPaymentConfirmed ==
    [][/\ \A p \in Procs, tx \in TxArgs, who \in UserIds, role \in Roles :
             XferSelect(p, tx, who, role) =>
                 LET row == SelectEscrow(committed, tx) IN
                 IF row # NoRow /\ row.status = "payment_confirmed"
                 THEN TRUE
                 ELSE Rejected(p) /\ pending' = pending /\ lock' = lock
       /\ \A p \in Procs, tx \in TxIds :
             (RefundUpdate(p, tx) /\ Row(tx).status = "pending_payment"
                                  /\ now <= Row(tx).timeout_at)
                 => Rejected(p) /\ pending' = pending /\ lock' = lock
       /\ \A p \in Procs, tx \in TxIds, h \in Hashes :
             (PayUpdate(p, tx, h) /\ Row(tx).status = "pending_payment")
                 => pc'[p] = "pay_commit"
      ]_vars

C7_Witness ==
    /\ ret = "Payment not confirmed yet"
    /\ \E t \in TxIds : Row(t).status = "pending_payment"

\* C8: the commit of the first confirmation leaves the escrow in
\* PaymentConfirmed; the commit that sets the second flag makes it Completed;
\* and the status becomes Completed in no other step.
C8_CompletedOnSecondConfirmation ==
    [][\A t \in TxIds :
          LET before == Row(t)
              after == committed'.escrows[t] IN
          before # NoRow =>
            /\ ( /\ before.status = "payment_confirmed"
                 /\ ~before.buyer_confirmed /\ ~before.seller_confirmed
                 /\ after.buyer_confirmed \/ after.seller_confirmed )
               => after.status = "payment_confirmed" /\ OneConfirmed(after)
            /\ ( /\ before.status = "payment_confirmed"
                 /\ OneConfirmed(before) /\ BothConfirmed(after) )
               => after.status = "completed"
            /\ (before.status # "completed" /\ after.status = "completed")
               => OneConfirmed(before) /\ BothConfirmed(after)
      ]_vars

C8_Witness ==
    /\ ret = "Transaction completed! Funds released to seller."
    /\ \E t \in TxIds : /\ Row(t).status = "completed"
                        /\ xferCount[t] = 2
                        /\ confirmers[t] = {Row(t).buyer_id, Row(t).seller_id}

\* the party's own flag is already committed, the other party's is not
Repeats(row, who, role) ==
    /\ row # NoRow
    /\ row.status = "payment_confirmed"
    /\ \/ role = "buyer" /\ who = row.buyer_id
          /\ row.buyer_confirmed /\ ~row.seller_confirmed
       \/ role = "seller" /\ who = row.seller_id
          /\ row.seller_confirmed /\ ~row.buyer_confirmed

\* C9: a confirmation repeated by the same party in the same role passes the
\* checks, and its commit returns success and leaves the row (status and both
\* flags) as it was: it never completes the escrow.
C9_RepeatedConfirmationIsNoOp ==
    [][/\ \A p \in Procs, tx \in TxIds, who \in UserIds, role \in Roles :
             (XferSelect(p, tx, who, role) /\ Repeats(Row(tx), who, role))
                 => pc'[p] = "xfer_update"
       /\ \A p \in Procs :
             ( /\ pc[p] \in {"xfer_commit", "xfer_commit_rel"}
               /\ pc'[p] = "idle"
               /\ Repeats(Row(call[p].tx), call[p].who, call[p].role) )
                 => /\ ret' = "confirmation recorded. Waiting for other party."
                    /\ committed' = committed
      ]_vars

C9_Witness ==
    /\ ret = "confirmation recorded. Waiting for other party."
    /\ \E t \in TxIds : /\ Row(t).status = "payment_confirmed"
                        /\ OneConfirmed(Row(t))
                        /\ xferCount[t] >= 2
                        /\ Cardinality(confirmers[t]) = 1

\* C10: handle_timeout_refund goes on to its commit exactly when the escrow
\* exists in PendingPayment or PaymentConfirmed and the time is later than
\* timeout_at; otherwise it returns 'not eligible' and changes nothing.  The
\* commit returns success and changes the status, nothing else, to Refunded.
C10_RefundOnlyAfterDeadline ==
    [][/\ \A p \in Procs, tx \in TxArgs :
             RefundUpdate(p, tx) =>
                 LET row == SelectEscrow(committed, tx) IN
                 IF /\ row # NoRow
                    /\ row.status \in {"pending_payment", "payment_confirmed"}
                    /\ now > row.timeout_at
                 THEN pc'[p] = "refund_commit" /\ committed' = committed
                 ELSE /\ pc'[p] = "idle"
                      /\ ret' = "Transaction not eligible for refund"
                      /\ committed' = committed /\ pending' = pending /\ lock' = lock
       /\ \A p \in Procs :
             RefundCommit(p) =>
                 /\ ret' = "Transaction refunded due to timeout"
                 /\ Row(call[p].tx).status \in {"pending_payment", "payment_confirmed"}
                 /\ now > Row(call[p].tx).timeout_at
                 /\ committed' = WithEscrow(committed, call[p].tx,
                                    [Row(call[p].tx) EXCEPT !.status = "refunded"])
      ]_vars

C10_Witness ==
    /\ ret = "Transaction refunded due to timeout"
    /\ \E t \in TxIds : Row(t).status = "refunded" /\ now > Row(t).timeout_at

\* C11: create_escrow_transaction is rejected, nothing inserted, when the
\* listing is missing, not active, or sold by the buyer; otherwise it goes on
\* to its INSERT, and its commit adds exactly one row, under an id no row had:
\* PendingPayment, both flags unset, no payment hash, the listing's seller and
\* price, and timeout_at = the time of creation + 72 hours.
C11_CreateInsertsOnePending ==
    [][/\ \A p \in Procs, l \in ListingArgs, b \in CreateBuyers :
             CreateSelect(p, l, b) =>
                 IF \/ l \notin Listings
                    \/ committed.listings[l].status # "active"
                    \/ committed.listings[l].seller_id = b
                 THEN Rejected(p) /\ pending' = pending /\ lock' = lock
                 ELSE pc'[p] = "create_insert" /\ committed' = committed
       /\ \A p \in Procs :
             CreateCommit(p) =>
                 /\ ret' = "created"
                 /\ \E tx \in TxIds :
                       /\ Row(tx) = NoRow
                       /\ committed' = WithEscrow(committed, tx,
                             [status |-> "pending_payment",
                              listing_id |-> call[p].listing,
                              buyer_id |-> call[p].who,
                              seller_id |-> committed.listings[call[p].listing].seller_id,
                              amount |-> committed.listings[call[p].listing].price,
                              payment_hash |-> NULL,
                              buyer_confirmed |-> FALSE,
                              seller_confirmed |-> FALSE,
                              escrow_address |-> EscrowAddress(tx, call[p].who),
                              timeout_at |-> now + 72])
      ]_vars

C11_Witness ==
    /\ ret = "created"
    /\ \E t \in TxIds : /\ Row(t).status = "pending_payment"
                        /\ Row(t).amount = ListingPrice
                        /\ Row(t).timeout_at = now + 72

\* the step ends a call of confirm_payment_received,
\* confirm_ownership_transfer or handle_timeout_refund with success = False
EscrowCallFails ==
    /\ Failed(ret')
    /\ ret' \notin {"Listing not found or inactive", "Cannot buy your own channel"}
    /\ \A p \in Procs : call[p].op = "create" => pc'[p] = pc[p]

\* C12: a call of confirm_payment_received, confirm_ownership_transfer or
\* handle_timeout_refund that returns success = False leaves every escrow
\* row and every listing row as it was.
C12_RejectionsChangeNothing ==
    [][EscrowCallFails => committed' = committed]_vars

\* ---------------------------------------------------- the deposit monitors
\* the stored deposit transactions assigned to a user
UserRows(db, user_id) == {h \in TxHashes : db.txs[h] # NoTx /\ db.txs[h].user_id = user_id}
\* what get_balance reports (lines 177-194): 0 without a user_balances row
BalanceOf(db, user_id) ==
    IF db.balances[user_id] = NoBalance THEN 0 ELSE db.balances[user_id].current_balance
CountOf(db, user_id) ==
    IF db.balances[user_id] = NoBalance THEN 0 ELSE db.balances[user_id].deposit_count

\* C13: however often the indexer delivers a hash, and whatever a restart
\* reloads, the hash is credited to its user at most once, and only with its
\* row stored.
C13_CreditedOncePerHash ==
    \A h \in TxHashes :
        /\ hist.credits[h] <= 1
        /\ hist.credits[h] = 1 => mdb.txs[h] # NoTx

\* C14: every qualifying transaction the indexer delivered whose logical
\* time is at most the persisted checkpoint is stored in transactions.
C14_CheckpointCoversStored ==
    \A h \in hist.delivered :
        (Qualifies(ChainTxs[h]) /\ ChainTxs[h].lt <= mdb.last_logical_time)
            => mdb.txs[h] # NoTx

\* C15: when the loop over a batch is over, every qualifying transaction of
\* the batch with a logical time above the checkpoint held when the cycle
\* began has been passed to deposit processing, and the transactions were
\* passed in ascending order of logical time.
C15_BatchProcessedAscending ==
    (poller.pc = "batch" /\ poller.i > Len(poller.batch)) =>
        /\ \A k \in 1..Len(poller.batch) :
              LET h == poller.batch[k] IN
              (Qualifies(ChainTxs[h]) /\ ChainTxs[h].lt > hist.start_lt)
                  => \E j \in 1..Len(hist.passed) : hist.passed[j] = h
        /\ \A j, k \in 1..Len(hist.passed) :
              j < k => ChainTxs[hist.passed[j]].lt < ChainTxs[hist.passed[k]].lt

\* C16: no step lowers system_status.last_logical_time.
C16_CheckpointNeverDecreases ==
    [][mdb'.last_logical_time >= mdb.last_logical_time]_vars

\* C17: a user's current_balance is the sum of the amounts of the stored
\* deposits matched to the user, and deposit_count is their number.
C17_BalanceIsSumOfDeposits ==
    \A u \in MonUserIds :
        /\ BalanceOf(mdb, u) = SumAmounts(mdb, UserRows(mdb, u))
        /\ CountOf(mdb, u) = Cardinality(UserRows(mdb, u))

\* C18: a step changes a user's current balance only by adding the amount of
\* a deposit of that user that the step stores.
C18_BalanceChangesOnlyByCredit ==
    [][\A u \in MonUserIds :
          \/ BalanceOf(mdb', u) = BalanceOf(mdb, u)
          \/ \E h \in TxHashes :
                /\ mdb.txs[h] = NoTx
                /\ mdb'.txs[h] # NoTx /\ mdb'.txs[h].user_id = u
                /\ BalanceOf(mdb', u) = BalanceOf(mdb, u) + ChainTxs[h].value
      ]_vars

\* C19: in every committed state the deposit count credited to a user is the
\* number of stored deposit transactions assigned to that user.
C19_StoredAndCreditedTogether ==
    \A u \in MonUserIds : CountOf(mdb, u) = Cardinality(UserRows(mdb, u))

\* C20: processing a new qualifying transaction whose sender matches no
\* registered user stores it with a null user reference and changes no
\* balance.
C20_UnmatchedIsStoredUnassigned ==
    [][LET h == poller.batch[poller.i] IN
       ( /\ PollerProcess
         /\ ~AlreadySeen(poller.last_lt, ChainTxs[h].lt)
         /\ Qualifies(ChainTxs[h])
         /\ FindUser(mdb, ChainTxs[h].source) = NoUser )
           => /\ mdb'.txs[h] # NoTx
              /\ mdb'.txs[h].user_id = NoUser
              /\ mdb'.balances = mdb.balances
      ]_vars

\* C21: a fetched transaction with a value of zero or less, without an
\* inbound message or with an empty sender is ignored: no transactions row
\* is ever stored for it.
C21_NonDepositsAreIgnored ==
    \A h \in TxHashes : ~Qualifies(ChainTxs[h]) => mdb.txs[h] = NoTx

\* C22: monitoring_loop leaves the loop as soon as max_consecutive_errors
\* polling cycles in a row have failed and for no fewer, and a cycle that
\* succeeds sets the counter of consecutive errors back to 0.
C22_HaltsAfterFiveFailures ==
    [][/\ (poller.pc # "halted" /\ poller'.pc = "halted")
            => hist'.failed = max_consecutive_errors
       /\ (hist'.failed # hist.failed /\ hist'.failed >= max_consecutive_errors)
            => poller'.pc = "halted"
       /\ (poller.pc = "batch" /\ poller'.pc = "idle")
            => poller'.consecutive_errors = 0
      ]_vars
\* the loop has ended on the fifth failure in a row, after deposits were stored
C22_Witness ==
    /\ poller.pc = "halted"
    /\ hist.failed = max_consecutive_errors
    /\ \E h \in TxHashes : mdb.txs[h] # NoTx

\* C23: once checks fail, either a later check succeeds or the monitoring
\* loop stops: the loop does not go on failing forever.
C23_FailingChecksHalt ==
    [](prod.error_count > 0 => <>(prod.pc = "stopped" \/ prod.error_count = 0))

\* C24: _fetch_transactions records a failure (_record_api_failure) only
\* when its HTTP attempts have reached max_retries, every failed attempt
\* before that being retried, and it never makes more attempts than that.
C24_FailureOnlyAfterAllRetries ==
    [][/\ prod'.attempt <= max_retries
       /\ prod'.circuit_breaker.failures = prod.circuit_breaker.failures + 1
            => prod.attempt + 1 = max_retries
      ]_vars

\* ------------------------------------------------------- the address book
Registered(db) == {u \in MonUserIds : db.users[u] # NoUserRow}
AddressSet(row) == {row.main} \cup row.variants

\* C25: no two user records hold a common address: whatever textual forms
\* of whatever accounts create_user_with_wallet was called with, the
\* addresses of an account are held by at most one user.
C25_NoSharedAddresses ==
    \A u, v \in Registered(mdb) :
        u # v => AddressSet(mdb.users[u]) \cap AddressSet(mdb.users[v]) = {}

\* C26: create_user_with_wallet called with an address that a user holds as
\* main address or as a stored variant, with any telegram_id, returns
\* success with the id of a user holding the address and leaves the users
\* and user_balances tables as they are.
C26_CreateIsIdempotent ==
    \A address \in Addresses, telegram_id \in TgArgs :
        (\E u \in MonUserIds : Owns(mdb.users[u], address)) =>
            LET r == create_user_with_wallet(mdb, address, telegram_id) IN
            /\ r.success
            /\ r.db = mdb
            /\ r.user_id # NoUser
            /\ Owns(mdb.users[r.user_id], address)
\* a user with a deposit credited holds addresses as stored variants only
C26_Witness ==
    \E u \in Registered(mdb) :
        /\ mdb.users[u].main \notin mdb.users[u].variants
        /\ mdb.balances[u].deposit_count > 0

\* C27: a deposit whose sender address is any textual form of the wallet
\* account of a registered user is matched to a user of that account.
C27_AnyVariantIsMatched ==
    [][\A h \in TxHashes :
          ( /\ ProdTake(h)
            /\ prod'.pc = "store"
            /\ \E u \in Registered(mdb) :
                   mdb.users[u].main.acct = ChainTxs[h].source.acct )
              => /\ prod'.user_id # NoUser
                 /\ mdb.users[prod'.user_id].main.acct = ChainTxs[h].source.acct
      ]_vars

\* lines 154-199: get_balance(telegram_id)
get_balance(db, telegram_id) ==
    LET rows == {u \in Registered(db) : db.users[u].telegram_id = telegram_id} IN
    IF rows = {}
    THEN [success |-> FALSE, user_id |-> NoUser, balance |-> 0, deposit_count |-> 0]
    ELSE LET user == CHOOSE u \in rows : TRUE IN
         [success |-> TRUE, user_id |-> user, balance |-> BalanceOf(db, user),
          deposit_count |-> CountOf(db, user)]

\* lines 201-272: get_balance_by_wallet(wallet_address)
get_balance_by_wallet(db, wallet_address) ==
    LET user == SelectUser(db, wallet_address) IN
    IF user = NoUser
    THEN [success |-> FALSE, user_id |-> NoUser, balance |-> 0, deposit_count |-> 0]
    ELSE [success |-> TRUE, user_id |-> user, balance |-> BalanceOf(db, user),
          deposit_count |-> CountOf(db, user)]

\* C28: for a registered user, get_balance_by_wallet answers every textual
\* form of the user's wallet account with the same user, balance and
\* deposit_count, the ones get_balance answers the user's telegram id with.
C28_SameBalanceForEveryVariant ==
    \A u \in Registered(mdb), f \in Forms :
        get_balance_by_wallet(mdb, Addr(mdb.users[u].main.acct, f))
            = get_balance(mdb, mdb.users[u].telegram_id)

\* C29: a stop request is graceful: stop() ends the process only between two
\* polling cycles, when the batch of the last cycle is processed and its
\* checkpoint is persisted.
C29_StopIsGraceful ==
    [][ProdStop => prod.pc = "idle"]_vars

\* C30: writes of one user's balance row are serialized so that no credit is
\* lost: whatever step writes the row, the credit of a deposit or
\* refresh_balance, the balance it leaves is the sum of the user's stored
\* deposits.
C30_WritesKeepEveryCredit ==
    [][\A u \in MonUserIds :
          mdb'.balances[u] # mdb.balances[u]
              => BalanceOf(mdb', u) = SumAmounts(mdb', UserRows(mdb', u))
      ]_vars

\* what create_user_with_wallet passed to get_mainnet_variants (line 394)
\* and what it got back, for the users it went on to insert
ValidAddress(address) == Parses(address) /\ address.crc_ok

\* C31: get_mainnet_variants answers an input that is neither a valid raw
\* address nor 36 encoded bytes with the right checksum with an error: it
\* returns neither the list of the input alone nor the variants computed
\* from the bytes.
C31_MalformedIsRejected ==
    \A u \in Registered(mdb) :
        LET address == mdb.users[u].main IN
        ~ValidAddress(address) =>
            mdb.users[u].variants \notin
                {{address}, {Addr(address.acct, f) : f \in MainnetForms}}

\* the workchain (as a byte) and the account id a valid encoding stands for
AccountOf(address) == [wc |-> address.wc % 256, account |-> address.acct]

\* lines 102-134 over every pair of encodings
SameVariants(a, b) ==
    /\ get_mainnet_variants(a) = get_mainnet_variants(b)
    /\ get_mainnet_variants(a) \cap get_mainnet_variants(b) # {}
AllPairsAgree ==
    \A a, b \in Encodings : AccountOf(a) = AccountOf(b) => SameVariants(a, b)

\* C32: for any two valid encodings of the same workchain and account id,
\* whatever the form, the flags and the alphabet, get_mainnet_variants
\* returns the same set, which is not empty; the variants stored with a user
\* are that set.
C32_SameAccountSameVariants ==
    /\ AllPairsAgree
    /\ \A u \in Registered(mdb), b \in Encodings :
            (ValidAddress(mdb.users[u].main)
                /\ AccountOf(b) = AccountOf(mdb.users[u].main)) =>
                    mdb.users[u].variants = get_mainnet_variants(b)
\* two users were registered under different encodings of one account and
\* were given the same variants
C32_Witness ==
    \E u, v \in Registered(mdb) :
        /\ u # v
        /\ ValidAddress(mdb.users[u].main) /\ ValidAddress(mdb.users[v].main)
        /\ AccountOf(mdb.users[u].main) = AccountOf(mdb.users[v].main)
        /\ mdb.users[u].variants = mdb.users[v].variants

\* an escrow left waiting past its deadline
Overdue(row) ==
    /\ row.status \in {"pending_payment", "payment_confirmed"}
    /\ row.timeout_at < now

\* C33: every escrow eventually reaches a terminal state: one left in
\* pending_payment or payment_confirmed after its timeout_at is eventually
\* refunded (or completed), with no caller from outside the repository.
C33_EveryEscrowEnds ==
    \A t \in TxIds : [](Overdue(Row(t)) => <>Terminal(Row(t)))

\* the escrows of a listing that are completed
Completed(l) ==
    {t \in TxIds : Row(t).status = "completed" /\ Row(t).listing_id = l}

\* C34: for every listing, at most one escrow ever reaches completed.
C34_OneSalePerListing ==
    \A l \in Listings : Cardinality(Completed(l)) <= 1

\* C35: an escrow with status completed has both buyer_confirmed and
\* seller_confirmed set and a payment_hash recorded; an escrow with status
\* pending_payment has both flags unset and no payment_hash.
C35_StatusMatchesFlags ==
    \A t \in TxIds :
        /\ Row(t).status = "completed" =>
              /\ Row(t).buyer_confirmed /\ Row(t).seller_confirmed
              /\ Row(t).payment_hash \in Hashes
        /\ Row(t).status = "pending_payment" =>
              /\ ~Row(t).buyer_confirmed /\ ~Row(t).seller_confirmed
              /\ Row(t).payment_hash = NULL
\* an escrow was completed by the confirmations of its two parties
C35_Witness ==
    \E t \in TxIds :
        Row(t).status = "completed" /\ Cardinality(confirmers[t]) = 2

\* the columns no method writes after the INSERT
Immutable(row) ==
    <<row.listing_id, row.buyer_id, row.seller_id, row.amount,
      row.escrow_address, row.timeout_at>>

\* C36: after creation an escrow's listing_id, buyer_id, seller_id, amount,
\* escrow_address and timeout_at never change, and a step changes the record
\* of no transaction id but the one of the call that commits.
C36_FrameOfEscrow ==
    [][\A t \in TxIds :
          /\ Row(t) # NoRow =>
                Row(t)' # NoRow /\ Immutable(Row(t)') = Immutable(Row(t))
          /\ Row(t)' # Row(t) =>
                \E p \in Procs : call[p].tx = t /\ pc[p] # "idle" /\ pc'[p] = "idle"]_vars
\* one escrow was completed and the other one refunded
C36_Witness ==
    \E t, u \in TxIds :
        Row(t).status = "completed" /\ Row(u).status = "refunded"

\* a request goes out in this step: an attempt of _fetch_transactions
Requested ==
    \/ \E n \in 0..MaxBatch : ProdFetch(n)
    \/ ProdAttemptFails
    \/ ProdAnswerNotOk

\* C37: the circuit breaker is open exactly when 3 failures have been
\* recorded with no success in between; while it is open and no more than 30
\* seconds have passed, _fetch_transactions returns None and makes no
\* request; after more than 30 seconds it closes with the count at 0; a
\* successful fetch closes it and resets the count.
C37_BreakerOpensAndCloses ==
    [][/\ prod'.circuit_breaker.is_open <=>
            prod'.circuit_breaker.failures = breaker_failures
       /\ prod'.circuit_breaker.failures > prod.circuit_breaker.failures =>
            /\ prod'.circuit_breaker.failures = prod.circuit_breaker.failures + 1
            /\ Requested
       /\ \A elapsed \in BreakerWaits :
            ProdBreakerOpen(elapsed) =>
                IF elapsed <= 30
                THEN /\ prod'.pc = "idle"
                     /\ prod'.circuit_breaker = prod.circuit_breaker
                     /\ ~Requested
                ELSE /\ prod'.pc = "attempt"
                     /\ prod'.circuit_breaker = [failures |-> 0, is_open |-> FALSE]
       /\ (\E n \in 0..MaxBatch : ProdFetch(n)) =>
            prod'.circuit_breaker = [failures |-> 0, is_open |-> FALSE]]_vars
\* the breaker had opened and was closed again after the wait
C37_Witness ==
    /\ prod.pc = "attempt" /\ prod.attempt = 0
    /\ prod.circuit_breaker = [failures |-> 0, is_open |-> FALSE]
    /\ prod.error_count >= breaker_failures

\* C38: a hash is in processed_transactions only if its transaction was
\* durably stored (the one _store_transaction is working on apart): a
\* transaction whose store failed is not marked processed.
C38_ProcessedMeansStored ==
    \A h \in prod.processed_transactions :
        \/ mdb.txs[h] # NoTx
        \/ prod.pc = "store" /\ prod.tx = h

====
